---- MODULE Spec2Model ----
(***************************************************************************)
(* A model of the root component App of src/App.tsx: the component state,  *)
(* the upload form (validateForm, handleSubmit and its timer), the         *)
(* 'Retrieve Chat History' click handler and the login form handler.       *)
(*                                                                         *)
(* Strings the code inspects (form fields) are sequences of one-character  *)
(* strings; a webhook response body is a sequence of JSON tokens.          *)
(***************************************************************************)
EXTENDS Integers, Sequences, FiniteSets, TLC

VARIABLES
    user,            \* useAuth().user (NoUser when absent)
    isAuthenticated, \* useAuth().isAuthenticated
    userId,          \* useState initialiser of line 49
    formData,        \* useState<FormData>
    errors,          \* useState<FormErrors>
    isSubmitting,    \* useState(false)
    submitStatus,    \* 'idle' | 'success' | 'error'
    submitMessage,   \* useState('')
    showUploadForm,  \* useState(false)
    submitPc,        \* where the pending handleSubmit run is suspended
    timers,          \* number of pending setTimeout callbacks of line 226
    submitLog,       \* history: what handleSubmit runs have done
    validateResult,  \* history: the value validateForm returned last
    clicks,          \* the runs of the 'Retrieve Chat History' click handler
    lastEvent,       \* history: the last 'loadWebhookHistory' event dispatched
    logins,          \* the runs of the login form's submit handler
    body,            \* a response body handed to the message extraction
    detail,          \* history: the messages extracted from body
    conversations,   \* useChatHistory().conversations
    allHistory,      \* the run of handleLoadAllHistory
    n8nHistory       \* the run of handleLoadN8NHistory

formVars == <<formData, errors, isSubmitting, submitStatus, submitMessage,
              showUploadForm, submitPc, timers, submitLog, validateResult>>
authVars == <<user, isAuthenticated, userId>>
appVars == <<clicks, lastEvent, logins>>
pureVars == <<body, detail>>
histVars == <<conversations, allHistory, n8nHistory>>

vars == <<user, isAuthenticated, userId, formData, errors, isSubmitting,
          submitStatus, submitMessage, showUploadForm, submitPc, timers,
          submitLog, validateResult, clicks, lastEvent, logins, body, detail,
          conversations, allHistory, n8nHistory>>

----------------------------------------------------------------------------
(* Bounds of the model *)

MaxNameLen == 1
MaxEmailLen == 5
MaxSubmits == 2
MaxClicks == 2
MaxLogins == 1
MaxArrayLen == 2
MaxRawLen == 2
MaxConversations == 3
MaxMessages == 2

----------------------------------------------------------------------------
(* Strings *)

Whitespace == {" "}
Chars == {"a", " ", "@", "."}

RECURSIVE Strings(_, _)
Strings(alphabet, n) ==
    IF n = 0 THEN {<<>>}
    ELSE LET shorter == Strings(alphabet, n - 1)
         IN  shorter \cup {Append(s, c) : s \in {t \in shorter : Len(t) = n - 1},
                                          c \in alphabet}

RECURSIVE TrimStart(_)
TrimStart(s) ==
    IF s = <<>> THEN <<>>
    ELSE IF Head(s) \in Whitespace THEN TrimStart(Tail(s)) ELSE s

RECURSIVE TrimEnd(_)
TrimEnd(s) ==
    IF s = <<>> THEN <<>>
    ELSE IF s[Len(s)] \in Whitespace THEN TrimEnd(SubSeq(s, 1, Len(s) - 1)) ELSE s

\* String.prototype.trim
Trim(s) == TrimEnd(TrimStart(s))

\* JavaScript truthiness of a string: the empty string is the only falsy one
Truthy(s) == s # <<>>

\* a || b on strings
OrElse(a, b) == IF Truthy(a) THEN a ELSE b

----------------------------------------------------------------------------
(* The email regular expression /^[^\s@]+@[^\s@]+\.[^\s@]+$/ of line 143,  *)
(* run as the automaton of its pattern: state 0 before the local part, 1   *)
(* in [^\s@]+ (local), 2 after '@', 3 in [^\s@]+ (domain), 4 after '.', 5  *)
(* in the last [^\s@]+, which is the accepting state at '$'.               *)

NotSpaceNotAt(c) == c \notin Whitespace /\ c # "@"

\* a pattern whose last part may be empty
EmailRegexStepNoTld(q, c) ==
    CASE q = 0 -> IF NotSpaceNotAt(c) THEN {1} ELSE {}
      [] q = 1 -> (IF NotSpaceNotAt(c) THEN {1} ELSE {}) \cup (IF c = "@" THEN {2} ELSE {})
      [] q = 2 -> IF NotSpaceNotAt(c) THEN {3} ELSE {}
      [] q = 3 -> (IF NotSpaceNotAt(c) THEN {3} ELSE {}) \cup (IF c = "." THEN {5} ELSE {})
      [] q = 4 -> IF NotSpaceNotAt(c) THEN {5} ELSE {}
      [] q = 5 -> IF NotSpaceNotAt(c) THEN {5} ELSE {}

EmailRegexStep(q, c) ==
    CASE q = 0 -> IF NotSpaceNotAt(c) THEN {1} ELSE {}
      [] q = 1 -> (IF NotSpaceNotAt(c) THEN {1} ELSE {}) \cup (IF c = "@" THEN {2} ELSE {})
      [] q = 2 -> IF NotSpaceNotAt(c) THEN {3} ELSE {}
      [] q = 3 -> (IF NotSpaceNotAt(c) THEN {3} ELSE {}) \cup (IF c = "." THEN {4} ELSE {})
      [] q = 4 -> IF NotSpaceNotAt(c) THEN {5} ELSE {}
      [] q = 5 -> IF NotSpaceNotAt(c) THEN {5} ELSE {}

RECURSIVE EmailRegexRun(_, _)
EmailRegexRun(states, s) ==
    IF s = <<>> THEN states
    ELSE EmailRegexRun(UNION {EmailRegexStep(q, Head(s)) : q \in states}, Tail(s))

\* /^[^\s@]+@[^\s@]+\.[^\s@]+$/.test(s)
EmailRegexTest(s) == 5 \in EmailRegexRun({0}, s)

----------------------------------------------------------------------------
(* Values of the component state *)

NoFile == [present |-> FALSE, type |-> "", size |-> 0]
File(type, size) == [present |-> TRUE, type |-> type, size |-> size]

\* 10 * 1024 * 1024 of line 151
MaxFileSize == 10 * 1024 * 1024

NoUser == [present |-> FALSE, id |-> <<>>, firstName |-> <<>>, lastName |-> <<>>,
           brandName |-> <<>>, email |-> <<>>]
User(id, firstName, lastName, brandName, email) ==
    [present |-> TRUE, id |-> id, firstName |-> firstName, lastName |-> lastName,
     brandName |-> brandName, email |-> email]

\* the initial formData of lines 31-37, and the reset of lines 215-221
EmptyForm == [firstName |-> <<>>, lastName |-> <<>>, brandName |-> <<>>,
              email |-> <<>>, file |-> NoFile]

\* {} of line 38: no key is set ("" stands for an absent key)
NoErrors == [firstName |-> "", lastName |-> "", brandName |-> "", email |-> "",
             file |-> ""]

TextFields == {"firstName", "lastName", "brandName", "email"}

\* user?.field || formData.field (lines 124-127, 187-190)
Effective(u, fd, field) == OrElse(IF u.present THEN u[field] ELSE <<>>, fd[field])

----------------------------------------------------------------------------
(* validateForm, lines 121-157 *)

\* a required-field check that forgets the trim
RequiredErrorUntrimmed(value, message) == IF value = <<>> THEN message ELSE ""

RequiredError(value, message) == IF Trim(value) = <<>> THEN message ELSE ""

EmailError(email) ==
    IF Trim(email) = <<>> THEN "Email is required"
    ELSE IF ~EmailRegexTest(email) THEN "Please enter a valid email address"
    ELSE ""

\* a size check that rejects a file of exactly the limit
FileErrorBelowLimit(file) ==
    IF ~file.present THEN "Please select a PDF file"
    ELSE IF file.type # "application/pdf" THEN "Only PDF files are allowed"
    ELSE IF file.size >= MaxFileSize THEN "File size must be less than 10MB"
    ELSE ""

FileError(file) ==
    IF ~file.present THEN "Please select a PDF file"
    ELSE IF file.type # "application/pdf" THEN "Only PDF files are allowed"
    ELSE IF file.size > MaxFileSize THEN "File size must be less than 10MB"
    ELSE ""

\* newErrors as validateForm builds it from the user and the form data
NewErrors(u, fd) ==
    [firstName |-> RequiredError(Effective(u, fd, "firstName"), "First name is required"),
     lastName  |-> RequiredError(Effective(u, fd, "lastName"), "Last name is required"),
     brandName |-> RequiredError(Effective(u, fd, "brandName"), "Brand name is required"),
     email     |-> EmailError(Effective(u, fd, "email")),
     file      |-> FileError(fd.file)]

\* Object.keys(newErrors).length === 0
IsValid(newErrors) == \A k \in DOMAIN newErrors : newErrors[k] = ""

----------------------------------------------------------------------------
(* handleSubmit, lines 177-242 *)

\* the generated identifier of line 50
GeneratedUserId == <<"user_", "random">>

\* the FormData of lines 186-194
UploadRequest(u, fd) ==
    [firstName     |-> Effective(u, fd, "firstName"),
     lastName      |-> Effective(u, fd, "lastName"),
     brandName     |-> Effective(u, fd, "brandName"),
     email         |-> Effective(u, fd, "email"),
     userId        |-> Effective(u, fd, "email"),
     userName      |-> IF u.present THEN u.firstName \o <<" ">> \o u.lastName
                       ELSE fd.firstName \o <<" ">> \o fd.lastName,
     userBrandName |-> Effective(u, fd, "brandName"),
     data          |-> fd.file]

NoRequest == UploadRequest(NoUser, EmptyForm)

NoMessage == <<>>
SuccessMessage == <<"Document uploaded successfully! Your file has been processed and is ready for analysis.">>
\* the template of line 238 around the error's message
ErrorMessage(thrown) == <<"Failed to upload document: ", thrown, ". Please try again.">>

\* what a failed upload can throw: the Error of line 233 (with the response
\* text, or the status text when the text is empty), a rejected fetch or
\* text() (an Error), or a thrown value that is no Error
UploadFailedText == "Upload failed (500): response text"
UploadFailedStatus == "Upload failed (500): Internal Server Error"
RejectionDetails == {"Failed to fetch", "Unknown error"}

\* a catch block without the finally block
SubmitCatchNoFinally(thrown) ==
    /\ submitStatus' = "error"
    /\ submitMessage' = ErrorMessage(thrown)
    /\ submitPc' = "idle"
    /\ submitLog' = [submitLog EXCEPT !.outcome = "failure"]
    /\ UNCHANGED <<user, isAuthenticated, userId, formData, errors, showUploadForm,
                   timers, validateResult, clicks, lastEvent, logins, body, detail, histVars,
                   isSubmitting>>

\* the catch and finally blocks, lines 235-241
SubmitCatch(thrown) ==
    /\ submitStatus' = "error"
    /\ submitMessage' = ErrorMessage(thrown)
    /\ isSubmitting' = FALSE
    /\ submitPc' = "idle"
    /\ submitLog' = [submitLog EXCEPT !.outcome = "failure"]
    /\ UNCHANGED <<user, isAuthenticated, userId, formData, errors, showUploadForm,
                   timers, validateResult, clicks, lastEvent, logins, body, detail, histVars>>

\* a submit handler that ignores what validateForm returns
HandleSubmitUnvalidated ==
    /\ showUploadForm
    /\ ~isSubmitting
    /\ submitLog.runs < MaxSubmits
    /\ errors' = NewErrors(user, formData)
    /\ validateResult' = IF IsValid(NewErrors(user, formData)) THEN "true" ELSE "false"
    /\ isSubmitting' = TRUE
    /\ submitStatus' = "idle"
    /\ submitPc' = "awaitFetch"
    /\ submitLog' = [runs |-> submitLog.runs + 1,
                     requests |-> submitLog.requests + 1,
                     runRequests |-> 1,
                     outcome |-> "pending",
                     request |-> UploadRequest(user, formData)]
    /\ UNCHANGED <<user, isAuthenticated, userId, formData, submitMessage,
                   showUploadForm, timers, clicks, lastEvent, logins, body, detail, histVars>>

\* a submit event that is also delivered while a request is pending
HandleSubmitWhileSubmitting ==
    /\ showUploadForm
    /\ submitLog.runs < MaxSubmits
    /\ LET newErrors == NewErrors(user, formData) IN
       /\ errors' = newErrors
       /\ validateResult' = IF IsValid(newErrors) THEN "true" ELSE "false"
       /\ IF ~IsValid(newErrors)
          THEN /\ submitLog' = [submitLog EXCEPT !.runs = @ + 1, !.runRequests = 0,
                                                 !.outcome = "invalid"]
               /\ UNCHANGED <<isSubmitting, submitStatus, submitPc>>
          ELSE /\ isSubmitting' = TRUE
               /\ submitStatus' = "idle"
               /\ submitPc' = "awaitFetch"
               /\ submitLog' = [runs |-> submitLog.runs + 1,
                                requests |-> submitLog.requests + 1,
                                runRequests |-> 1,
                                outcome |-> "pending",
                                request |-> UploadRequest(user, formData)]
    /\ UNCHANGED <<user, isAuthenticated, userId, formData, submitMessage,
                   showUploadForm, timers, clicks, lastEvent, logins, body, detail, histVars>>

\* the submit event of the upload form: the form is rendered only while
\* showUploadForm (line 648) and its submit button is disabled while
\* isSubmitting (line 856)
HandleSubmit ==
    /\ showUploadForm
    /\ ~isSubmitting
    /\ submitLog.runs < MaxSubmits
    /\ LET newErrors == NewErrors(user, formData) IN
       /\ errors' = newErrors
       /\ validateResult' = IF IsValid(newErrors) THEN "true" ELSE "false"
       /\ IF ~IsValid(newErrors)
          THEN /\ submitLog' = [submitLog EXCEPT !.runs = @ + 1, !.runRequests = 0,
                                                 !.outcome = "invalid"]
               /\ UNCHANGED <<isSubmitting, submitStatus, submitPc>>
          ELSE /\ isSubmitting' = TRUE
               /\ submitStatus' = "idle"
               /\ submitPc' = "awaitFetch"
               /\ submitLog' = [runs |-> submitLog.runs + 1,
                                requests |-> submitLog.requests + 1,
                                runRequests |-> 1,
                                outcome |-> "pending",
                                request |-> UploadRequest(user, formData)]
    /\ UNCHANGED <<user, isAuthenticated, userId, formData, submitMessage,
                   showUploadForm, timers, clicks, lastEvent, logins, body, detail, histVars>>

\* a success branch that closes the form at once instead of after the delay
UploadResponseOkClosesForm ==
    /\ submitPc = "awaitFetch"
    /\ submitStatus' = "idle"
    /\ submitMessage' = NoMessage
    /\ formData' = EmptyForm
    /\ showUploadForm' = FALSE
    /\ isSubmitting' = FALSE
    /\ submitPc' = "idle"
    /\ submitLog' = [submitLog EXCEPT !.outcome = "success"]
    /\ UNCHANGED <<user, isAuthenticated, userId, errors, timers,
                   validateResult, clicks, lastEvent, logins, body, detail, histVars>>

\* fetch resolves with response.ok: lines 212-230, then finally
UploadResponseOk ==
    /\ submitPc = "awaitFetch"
    /\ submitStatus' = "success"
    /\ submitMessage' = SuccessMessage
    /\ formData' = EmptyForm
    /\ timers' = timers + 1
    /\ isSubmitting' = FALSE
    /\ submitPc' = "idle"
    /\ submitLog' = [submitLog EXCEPT !.outcome = "success"]
    /\ UNCHANGED <<user, isAuthenticated, userId, errors, showUploadForm,
                   validateResult, clicks, lastEvent, logins, body, detail, histVars>>

\* fetch resolves with a response that is not ok: line 232 awaits its text
UploadResponseNotOk ==
    /\ submitPc = "awaitFetch"
    /\ submitPc' = "awaitText"
    /\ UNCHANGED <<user, isAuthenticated, userId, formData, errors, isSubmitting,
                   submitStatus, submitMessage, showUploadForm, timers, submitLog,
                   validateResult, clicks, lastEvent, logins, body, detail, histVars>>

\* a handler that sends the request again when the response is not ok
UploadTextResolvesRetries ==
    /\ submitPc = "awaitText"
    /\ submitPc' = "awaitFetch"
    /\ submitLog' = [submitLog EXCEPT !.requests = @ + 1, !.runRequests = @ + 1]
    /\ UNCHANGED <<user, isAuthenticated, userId, formData, errors, isSubmitting,
                   submitStatus, submitMessage, showUploadForm, timers,
                   validateResult, clicks, lastEvent, logins, body, detail, histVars>>

\* response.text() resolves: line 233 throws, caught at line 235
UploadTextResolves ==
    /\ submitPc = "awaitText"
    /\ \E thrown \in {UploadFailedText, UploadFailedStatus} : SubmitCatch(thrown)

\* fetch or response.text() rejects: caught at line 235
UploadRejects ==
    /\ submitPc \in {"awaitFetch", "awaitText"}
    /\ \E thrown \in RejectionDetails : SubmitCatch(thrown)

\* the setTimeout callback of lines 226-230
UploadTimerFires ==
    /\ timers > 0
    /\ timers' = timers - 1
    /\ showUploadForm' = FALSE
    /\ submitStatus' = "idle"
    /\ submitMessage' = NoMessage
    /\ UNCHANGED <<user, isAuthenticated, userId, formData, errors, isSubmitting,
                   submitPc, submitLog, validateResult, clicks, lastEvent, logins,
                   body, detail, histVars>>

----------------------------------------------------------------------------
(* The other handlers of the upload form *)

\* the close button (line 655) and the Cancel button (line 874)
CloseUploadForm ==
    /\ showUploadForm
    /\ showUploadForm' = FALSE
    /\ UNCHANGED <<user, isAuthenticated, userId, formData, errors, isSubmitting,
                   submitStatus, submitMessage, submitPc, timers, submitLog,
                   validateResult, clicks, lastEvent, logins, body, detail, histVars>>

\* what the user types in this model
TypedNames == {<<" ">>, <<"a">>}
TypedEmails == {<<>>, <<"a", "@", "a">>, <<"a", "@", "a", ".", "a">>}
TypedValues(name) == IF name = "email" THEN TypedEmails ELSE TypedNames

\* handleInputChange, lines 159-166; the inputs are disabled while a user is
\* logged in (lines 702, 732, 762, 792)
HandleInputChange ==
    /\ showUploadForm
    /\ ~user.present
    /\ \E name \in TextFields : \E value \in TypedValues(name) :
          /\ formData' = [formData EXCEPT ![name] = value]
          /\ errors' = IF errors[name] # "" THEN [errors EXCEPT ![name] = ""] ELSE errors
    /\ UNCHANGED <<user, isAuthenticated, userId, isSubmitting, submitStatus,
                   submitMessage, showUploadForm, submitPc, timers, submitLog,
                   validateResult, clicks, lastEvent, logins, body, detail, histVars>>

SelectableFiles == {NoFile, File("application/pdf", 1024), File("text/plain", 1024)}

\* handleFileChange, lines 168-175
HandleFileChange ==
    /\ showUploadForm
    /\ \E file \in SelectableFiles :
          /\ formData' = [formData EXCEPT !.file = file]
          /\ errors' = IF errors.file # "" THEN [errors EXCEPT !.file = ""] ELSE errors
    /\ UNCHANGED <<user, isAuthenticated, userId, isSubmitting, submitStatus,
                   submitMessage, showUploadForm, submitPc, timers, submitLog,
                   validateResult, clicks, lastEvent, logins, body, detail, histVars>>

----------------------------------------------------------------------------
(* JSON. A response body is a sequence of tokens [k |-> kind, v |-> text]: *)
(* punctuation, whitespace, string, number and literal tokens, and "word"  *)
(* tokens for text that is no JSON token. A JSON value is a record         *)
(* [t, b, n, s, items, fields] of which the type t says which part counts. *)

Punct(v) == [k |-> "punct", v |-> v]
Ws == [k |-> "ws", v |-> " "]
StringTok(v) == [k |-> "string", v |-> v]
NumberTok(v) == [k |-> "number", v |-> v]
LiteralTok(v) == [k |-> "literal", v |-> v]
Word(v) == [k |-> "word", v |-> v]

JValue(t, b, n, s, items, fields) ==
    [t |-> t, b |-> b, n |-> n, s |-> s, items |-> items, fields |-> fields]
JUndefined == JValue("undefined", FALSE, 0, <<>>, <<>>, <<>>)
JNull == JValue("null", FALSE, 0, <<>>, <<>>, <<>>)
JBool(b) == JValue("bool", b, 0, <<>>, <<>>, <<>>)
JNum(n) == JValue("num", FALSE, n, <<>>, <<>>, <<>>)
\* a string, as the sequence of its pieces (<<>> is the empty string)
JStr(s) == JValue("str", FALSE, 0, s, <<>>, <<>>)
JArr(items) == JValue("arr", FALSE, 0, <<>>, items, <<>>)
\* an object, as the sequence of its members [key, val] in source order
JObj(fields) == JValue("obj", FALSE, 0, <<>>, <<>>, fields)

NumberOf(v) == CASE v = "0" -> 0 [] v = "1" -> 1 [] OTHER -> 2

ParseFail == [ok |-> FALSE, val |-> JUndefined, rest |-> <<>>]
ParseOk(val, rest) == [ok |-> TRUE, val |-> val, rest |-> rest]

RECURSIVE SkipWs(_)
SkipWs(toks) ==
    IF toks # <<>> /\ Head(toks).k = "ws" THEN SkipWs(Tail(toks)) ELSE toks

IsPunct(toks, v) == toks # <<>> /\ Head(toks) = Punct(v)

RECURSIVE ParseValue(_), ParseElements(_, _), ParseMembers(_, _)

\* value := ws (string | number | literal | array | object)
ParseValue(toks) ==
    LET t == SkipWs(toks) IN
    IF t = <<>> THEN ParseFail
    ELSE LET h == Head(t) IN
         CASE h.k = "string" -> ParseOk(JStr(IF h.v = "" THEN <<>> ELSE <<h.v>>), Tail(t))
           [] h.k = "number" -> ParseOk(JNum(NumberOf(h.v)), Tail(t))
           [] h.k = "literal" ->
                ParseOk(CASE h.v = "true" -> JBool(TRUE)
                          [] h.v = "false" -> JBool(FALSE)
                          [] OTHER -> JNull, Tail(t))
           [] h = Punct("[") ->
                IF IsPunct(SkipWs(Tail(t)), "]")
                THEN ParseOk(JArr(<<>>), Tail(SkipWs(Tail(t))))
                ELSE ParseElements(Tail(t), <<>>)
           [] h = Punct("{") ->
                IF IsPunct(SkipWs(Tail(t)), "}")
                THEN ParseOk(JObj(<<>>), Tail(SkipWs(Tail(t))))
                ELSE ParseMembers(Tail(t), <<>>)
           [] OTHER -> ParseFail

\* elements := value (ws "," value)* ws "]"
ParseElements(toks, items) ==
    LET r == ParseValue(toks) IN
    IF ~r.ok THEN ParseFail
    ELSE LET t == SkipWs(r.rest) IN
         IF IsPunct(t, "]") THEN ParseOk(JArr(Append(items, r.val)), Tail(t))
         ELSE IF IsPunct(t, ",") THEN ParseElements(Tail(t), Append(items, r.val))
         ELSE ParseFail

\* members := ws string ws ":" value (ws "," members)* ws "}"
ParseMembers(toks, fields) ==
    LET t == SkipWs(toks) IN
    IF t = <<>> \/ Head(t).k # "string" THEN ParseFail
    ELSE LET c == SkipWs(Tail(t)) IN
         IF ~IsPunct(c, ":") THEN ParseFail
         ELSE LET r == ParseValue(Tail(c)) IN
              IF ~r.ok THEN ParseFail
              ELSE LET e == SkipWs(r.rest)
                       fs == Append(fields, [key |-> Head(t).v, val |-> r.val])
                   IN  IF IsPunct(e, "}") THEN ParseOk(JObj(fs), Tail(e))
                       ELSE IF IsPunct(e, ",") THEN ParseMembers(Tail(e), fs)
                       ELSE ParseFail

\* JSON.parse(text): a value, or a SyntaxError (ok = FALSE)
JSONParse(text) ==
    LET r == ParseValue(text) IN
    IF r.ok /\ SkipWs(r.rest) = <<>> THEN r ELSE ParseFail

\* value.key: the last member of that key when value is an object
RECURSIVE Lookup(_, _)
Lookup(fields, key) ==
    IF fields = <<>> THEN JUndefined
    ELSE IF fields[Len(fields)].key = key THEN fields[Len(fields)].val
    ELSE Lookup(SubSeq(fields, 1, Len(fields) - 1), key)

Get(value, key) == IF value.t = "obj" THEN Lookup(value.fields, key) ELSE JUndefined

\* JavaScript truthiness
JsTruthy(value) ==
    CASE value.t \in {"undefined", "null"} -> FALSE
      [] value.t = "bool" -> value.b
      [] value.t = "num" -> value.n # 0
      [] value.t = "str" -> value.s # <<>>
      [] OTHER -> TRUE

\* value.length === 0
LengthIsZero(value) ==
    CASE value.t = "arr" -> value.items = <<>>
      [] value.t = "str" -> value.s = <<>>
      [] value.t = "obj" -> Get(value, "length") = JNum(0)
      [] OTHER -> FALSE

\* a || b that also passes over an empty list
JsOrSkipsEmpty(a, b) == IF JsTruthy(a) /\ ~LengthIsZero(a) THEN a ELSE b

\* a || b
JsOr(a, b) == IF JsTruthy(a) THEN a ELSE b

\* String.prototype.trim on a body
RECURSIVE TrimWsEnd(_)
TrimWsEnd(toks) ==
    IF toks # <<>> /\ toks[Len(toks)].k = "ws"
    THEN TrimWsEnd(SubSeq(toks, 1, Len(toks) - 1)) ELSE toks

TrimBody(toks) == TrimWsEnd(SkipWs(toks))

\* the text of a body, as the pieces of a string
TextOf(toks) ==
    [i \in 1..(2 * Len(toks)) |->
        IF i % 2 = 1 THEN toks[(i + 1) \div 2].k ELSE toks[i \div 2].v]

\* new Date().toISOString()
Now == JStr(<<"now">>)

\* {content, sender: 'bot', timestamp} of lines 376-380, 397-401, 410-414
BotMessage(content) ==
    JObj(<<[key |-> "content", val |-> JStr(content)],
           [key |-> "sender", val |-> JStr(<<"bot">>)],
           [key |-> "timestamp", val |-> Now]>>)

----------------------------------------------------------------------------
(* The 'Retrieve Chat History' click handler, lines 327-418 *)

\* the field names tried in turn, lines 359-364
MessageFields == <<"messages", "data", "history", "chat_history", "conversations", "items">>

RECURSIVE FirstTruthyFrom(_, _)
FirstTruthyFrom(parsedResult, i) ==
    IF i > Len(MessageFields) THEN JArr(<<>>)
    ELSE JsOr(Get(parsedResult, MessageFields[i]), FirstTruthyFrom(parsedResult, i + 1))

\* parsedResult.messages || parsedResult.data || ... || []
FirstTruthyField(parsedResult) == FirstTruthyFrom(parsedResult, 1)

\* lines 355-371: the messages of a parsed response
MessagesOfParsed(parsedResult) ==
    IF parsedResult.t = "arr" THEN parsedResult
    ELSE IF JsTruthy(parsedResult) /\ parsedResult.t = "obj"
    THEN LET messages == FirstTruthyField(parsedResult) IN
         IF /\ LengthIsZero(messages)
            /\ \/ JsTruthy(Get(parsedResult, "content"))
               \/ JsTruthy(Get(parsedResult, "message"))
               \/ JsTruthy(Get(parsedResult, "text"))
         THEN JArr(<<parsedResult>>)
         ELSE messages
    ELSE JArr(<<>>)

\* a raw-text message that keeps the surrounding whitespace
MessagesOfTextUntrimmed(responseText) ==
    IF TrimBody(responseText) # <<>>
    THEN JArr(<<BotMessage(TextOf(responseText))>>)
    ELSE JArr(<<>>)

\* lines 372-382: the messages of a response that is no JSON
MessagesOfText(responseText) ==
    IF TrimBody(responseText) # <<>>
    THEN JArr(<<BotMessage(TextOf(TrimBody(responseText)))>>)
    ELSE JArr(<<>>)

\* lines 347-382: `messages` when the event of line 387 is built
ExtractMessages(responseText) ==
    LET r == JSONParse(responseText) IN
    IF r.ok THEN MessagesOfParsed(r.val) ELSE MessagesOfText(responseText)

\* the detail of the error events, lines 396-402 and 409-415
HttpErrorDetail ==
    JArr(<<BotMessage(<<"Failed to retrieve chat history: ", "500 Internal Server Error">>)>>)
ThrownDetail(message) ==
    JArr(<<BotMessage(<<"Error retrieving chat history: ", message>>)>>)

NoClick == [pc |-> "none", fetches |-> 0, events |-> 0]
NoEvent == [click |-> 0, outcome |-> "none", body |-> <<>>, detail |-> JUndefined]

\* window.dispatchEvent(new CustomEvent('loadWebhookHistory', {detail}))
DispatchEvent(c, outcome, responseText, eventDetail) ==
    /\ clicks' = [clicks EXCEPT ![c] = [pc |-> "done", fetches |-> @.fetches,
                                        events |-> @.events + 1]]
    /\ lastEvent' = [click |-> c, outcome |-> outcome, body |-> responseText,
                     detail |-> eventDetail]

\* the response bodies the webhook answers with in this model
ArrayBody == <<Punct("["), NumberTok("1"), Punct("]")>>
ObjectBody == <<Punct("{"), StringTok("messages"), Punct(":"), Punct("["),
                NumberTok("1"), Punct("]"), Punct("}")>>
StringFieldBody == <<Punct("{"), StringTok("data"), Punct(":"), StringTok("s"), Punct("}")>>
ScalarBody == <<NumberTok("1")>>
TextBody == <<Ws, Word("hello"), Ws>>
BlankBody == <<Ws>>
SampleBodies == {ArrayBody, ObjectBody, StringFieldBody, ScalarBody, TextBody, BlankBody}

\* the button is rendered only for a logged-in user (line 276); the click
\* calls fetch (line 330)
RetrieveClick(c) ==
    /\ isAuthenticated /\ user.present
    /\ clicks[c].pc = "none"
    /\ \A d \in 1..(c - 1) : clicks[d].pc # "none"
    /\ clicks' = [clicks EXCEPT ![c] = [pc |-> "awaitFetch", fetches |-> 1, events |-> 0]]
    /\ UNCHANGED <<authVars, formVars, lastEvent, logins, pureVars, histVars>>

\* fetch resolves with response.ok: line 344 awaits the text
RetrieveResponseOk(c) ==
    /\ clicks[c].pc = "awaitFetch"
    /\ clicks' = [clicks EXCEPT ![c].pc = "awaitText"]
    /\ UNCHANGED <<authVars, formVars, lastEvent, logins, pureVars, histVars>>

\* response.text() resolves: lines 347-390
RetrieveTextResolves(c) ==
    /\ clicks[c].pc = "awaitText"
    /\ \E responseText \in SampleBodies :
          DispatchEvent(c, "ok", responseText, ExtractMessages(responseText))
    /\ UNCHANGED <<authVars, formVars, logins, pureVars, histVars>>

\* fetch resolves with a response that is not ok: lines 392-404
RetrieveResponseNotOk(c) ==
    /\ clicks[c].pc = "awaitFetch"
    /\ DispatchEvent(c, "notOk", <<>>, HttpErrorDetail)
    /\ UNCHANGED <<authVars, formVars, logins, pureVars, histVars>>

\* a handler whose catch does not cover the read of the response text
RetrieveRejectsTextUncaught(c) ==
    /\ clicks[c].pc \in {"awaitFetch", "awaitText"}
    /\ IF clicks[c].pc = "awaitText"
       THEN /\ clicks' = [clicks EXCEPT ![c].pc = "done"]
            /\ UNCHANGED lastEvent
       ELSE \E message \in RejectionDetails :
               DispatchEvent(c, "thrown", <<>>, ThrownDetail(message))
    /\ UNCHANGED <<authVars, formVars, logins, pureVars, histVars>>

\* fetch or response.text() rejects: the catch of lines 405-417
RetrieveRejects(c) ==
    /\ clicks[c].pc \in {"awaitFetch", "awaitText"}
    /\ \E message \in RejectionDetails : DispatchEvent(c, "thrown", <<>>, ThrownDetail(message))
    /\ UNCHANGED <<authVars, formVars, logins, pureVars, histVars>>

----------------------------------------------------------------------------
(* The login form's submit handler, lines 543-555 *)

\* what login resolves with: {success, error?}
LoginResults == {[success |-> TRUE, error |-> <<>>],
                 [success |-> FALSE, error |-> <<>>],
                 [success |-> FALSE, error |-> <<"Invalid login credentials">>],
                 [success |-> TRUE, error |-> <<"ignored">>]}
NoResult == [success |-> FALSE, error |-> <<>>]
NoLogin == [pc |-> "none", calls |-> 0, alert |-> <<>>, email |-> <<>>,
            password |-> <<>>, result |-> NoResult]
LoginInputs == {<<>>, <<"x">>}

\* the login screen is rendered unless a user is logged in (lines 276, 524)
LoginSubmit(i) ==
    /\ ~(isAuthenticated /\ user.present)
    /\ logins[i].pc = "none"
    /\ \A j \in 1..(i - 1) : logins[j].pc # "none"
    /\ \E email \in LoginInputs, password \in LoginInputs :
          logins' = [logins EXCEPT ![i] =
                        IF Truthy(email) /\ Truthy(password)
                        THEN [@ EXCEPT !.pc = "awaitLogin", !.calls = 1,
                                       !.email = email, !.password = password]
                        ELSE [@ EXCEPT !.pc = "done",
                                       !.email = email, !.password = password]]
    /\ UNCHANGED <<authVars, formVars, clicks, lastEvent, pureVars, histVars>>

\* a handler that shows the error of every result
LoginResolvesAlertsAlways(i) ==
    /\ logins[i].pc = "awaitLogin"
    /\ \E result \in LoginResults :
          logins' = [logins EXCEPT ![i] =
                        [@ EXCEPT !.pc = "done", !.result = result,
                                  !.alert = result.error]]
    /\ UNCHANGED <<authVars, formVars, clicks, lastEvent, pureVars, histVars>>

\* login resolves: lines 551-553
LoginResolves(i) ==
    /\ logins[i].pc = "awaitLogin"
    /\ \E result \in LoginResults :
          logins' = [logins EXCEPT ![i] =
                        [@ EXCEPT !.pc = "done", !.result = result,
                                  !.alert = IF ~result.success /\ Truthy(result.error)
                                            THEN result.error ELSE <<>>]]
    /\ UNCHANGED <<authVars, formVars, clicks, lastEvent, pureVars, histVars>>

----------------------------------------------------------------------------
(* handleLoadAllHistory and handleLoadN8NHistory, lines 68-119 *)

\* a ChatMessage as the hooks hand it over
Message(id, content, sender, timestamp, attachments) ==
    [id |-> id, content |-> content, sender |-> sender, timestamp |-> timestamp,
     attachments |-> attachments]

\* a conversation of useChatHistory().conversations; createdAt is a Date
Conversation(id, title, createdAt) == [id |-> id, title |-> title, createdAt |-> createdAt]
DateOf(day, time) == [day |-> day, time |-> time]

\* Date.prototype.toLocaleDateString: the day without the time
ToLocaleDateString(date) == <<"day", date.day>>

\* lines 79-84
Separator(conversation) ==
    Message(<<"separator-", conversation.id>>,
            <<"--- ", conversation.title, " (",
              ToLocaleDateString(conversation.createdAt), ") ---">>,
            "bot", conversation.createdAt, "undefined")

\* lines 87-93
HistoryMessage(msg) ==
    Message(<<"history-", msg.id>>, msg.content, msg.sender, msg.timestamp,
            msg.attachments)

\* messages.map of lines 87-93
HistoryMessages(messages) == [i \in 1..Len(messages) |-> HistoryMessage(messages[i])]

\* history messages put in front of the list instead of behind it
PushConversationInFront(allMessages, conversation, messages) ==
    HistoryMessages(messages)
    \o (IF Len(allMessages) > 0 THEN <<Separator(conversation)>> ELSE <<>>)
    \o allMessages

\* lines 78-93: what one iteration of the loop pushes on allMessages
PushConversation(allMessages, conversation, messages) ==
    allMessages
    \o (IF Len(allMessages) > 0 THEN <<Separator(conversation)>> ELSE <<>>)
    \o HistoryMessages(messages)

\* lines 108-114
N8NMessage(msg) == Message(msg.id, msg.content, msg.sender, msg.timestamp, msg.attachments)
N8NMessages(messages) == [i \in 1..Len(messages) |-> N8NMessage(messages[i])]

NoAllHistory == [pc |-> "none", convs |-> <<>>, k |-> 0, allMessages |-> <<>>,
                 calls |-> <<>>, loaded |-> <<>>, outcome |-> "none", result |-> <<>>]
NoN8NHistory == [pc |-> "none", calls |-> 0, load |-> "none", outcome |-> "none",
                 result |-> <<>>]

HistoryIdle ==
    /\ conversations = <<>>
    /\ allHistory = NoAllHistory
    /\ n8nHistory = NoN8NHistory

Started(id) == [op |-> "start", id |-> id]
Settled(id, ok) == [op |-> IF ok THEN "loaded" ELSE "failed", id |-> id]

\* handleLoadAllHistory without the check of line 69
LoadAllHistoryUnguarded ==
    /\ allHistory.pc = "none"
    /\ IF conversations = <<>>
       THEN allHistory' = [allHistory EXCEPT !.pc = "done", !.outcome = "returned"]
       ELSE allHistory' = [allHistory EXCEPT !.pc = "loading", !.convs = conversations,
                               !.k = 1,
                               !.calls = <<Started(conversations[1].id)>>]
    /\ UNCHANGED <<authVars, formVars, appVars, pureVars, conversations, n8nHistory>>

\* handleLoadAllHistory, lines 68-76: up to the first await, or to the
\* return when there is nothing to await
LoadAllHistory ==
    /\ allHistory.pc = "none"
    /\ IF ~user.present \/ ~isAuthenticated \/ conversations = <<>>
       THEN allHistory' = [allHistory EXCEPT !.pc = "done", !.outcome = "returned"]
       ELSE allHistory' = [allHistory EXCEPT !.pc = "loading", !.convs = conversations,
                               !.k = 1,
                               !.calls = <<Started(conversations[1].id)>>]
    /\ UNCHANGED <<authVars, formVars, appVars, pureVars, conversations, n8nHistory>>

\* lines 76-96: loadConversationMessages resolves; the loop goes on to the
\* next await or to the return
ConversationLoadsWith(messages) ==
    /\ allHistory.pc = "loading"
    /\ LET conversation == allHistory.convs[allHistory.k]
           pushed == PushConversation(allHistory.allMessages, conversation, messages)
           calls == Append(allHistory.calls, Settled(conversation.id, TRUE))
       IN  IF allHistory.k < Len(allHistory.convs)
           THEN allHistory' = [allHistory EXCEPT
                    !.allMessages = pushed, !.loaded = Append(@, messages), !.k = @ + 1,
                    !.calls = Append(calls, Started(allHistory.convs[allHistory.k + 1].id))]
           ELSE allHistory' = [allHistory EXCEPT
                    !.allMessages = pushed, !.loaded = Append(@, messages), !.calls = calls, !.pc = "done",
                    !.outcome = "returned", !.result = pushed]
    /\ UNCHANGED <<authVars, formVars, appVars, pureVars, conversations, n8nHistory>>

\* a catch block that returns what was collected so far
ConversationFailsKeepsCollected ==
    /\ allHistory.pc = "loading"
    /\ allHistory' = [allHistory EXCEPT
            !.calls = Append(@, Settled(allHistory.convs[allHistory.k].id, FALSE)),
            !.pc = "done", !.outcome = "returned", !.result = allHistory.allMessages]
    /\ UNCHANGED <<authVars, formVars, appVars, pureVars, conversations, n8nHistory>>

\* lines 97-100: loadConversationMessages rejects
ConversationFails ==
    /\ allHistory.pc = "loading"
    /\ allHistory' = [allHistory EXCEPT
            !.calls = Append(@, Settled(allHistory.convs[allHistory.k].id, FALSE)),
            !.pc = "done", !.outcome = "returned", !.result = <<>>]
    /\ UNCHANGED <<authVars, formVars, appVars, pureVars, conversations, n8nHistory>>

\* handleLoadN8NHistory, lines 103-107
LoadN8NHistory ==
    /\ n8nHistory.pc = "none"
    /\ IF ~user.present \/ ~isAuthenticated
       THEN n8nHistory' = [n8nHistory EXCEPT !.pc = "done", !.outcome = "returned"]
       ELSE n8nHistory' = [n8nHistory EXCEPT !.pc = "loading", !.calls = @ + 1]
    /\ UNCHANGED <<authVars, formVars, appVars, pureVars, conversations, allHistory>>

\* lines 107-114: loadN8NChatHistory resolves
N8NLoadsWith(messages) ==
    /\ n8nHistory.pc = "loading"
    /\ n8nHistory' = [n8nHistory EXCEPT !.pc = "done", !.load = "resolved",
                           !.outcome = "returned",
                           !.result = N8NMessages(messages)]
    /\ UNCHANGED <<authVars, formVars, appVars, pureVars, conversations, allHistory>>

\* lines 115-118: loadN8NChatHistory rejects
N8NFails ==
    /\ n8nHistory.pc = "loading"
    /\ n8nHistory' = [n8nHistory EXCEPT !.pc = "done", !.load = "rejected",
                           !.outcome = "returned", !.result = <<>>]
    /\ UNCHANGED <<authVars, formVars, appVars, pureVars, conversations, allHistory>>

----------------------------------------------------------------------------
(* Authentication, as the component sees it through useAuth *)

Alice == User(<<"u1">>, <<"a">>, <<"a">>, <<"a">>, <<"a", "@", "a", ".", "a">>)
AuthUsers == {NoUser, Alice}

\* the effect of lines 54-66, run when user or showUploadForm has changed
PrefillEffect(u, shown, fd) ==
    IF u.present /\ shown
    THEN [fd EXCEPT !.firstName = u.firstName, !.lastName = u.lastName,
                    !.brandName = u.brandName, !.email = u.email]
    ELSE fd

\* useAuth hands the component another user or another isAuthenticated
AuthChange ==
    /\ \E u \in AuthUsers, a \in BOOLEAN :
          /\ <<u, a>> # <<user, isAuthenticated>>
          /\ user' = u
          /\ isAuthenticated' = a
          /\ formData' = IF u # user THEN PrefillEffect(u, showUploadForm, formData)
                         ELSE formData
          /\ errors' = IF u # user /\ u.present /\ showUploadForm THEN NoErrors ELSE errors
    /\ UNCHANGED <<userId, isSubmitting, submitStatus, submitMessage, showUploadForm,
                   submitPc, timers, submitLog, validateResult, appVars, pureVars, histVars>>

----------------------------------------------------------------------------
(* The component after its first render *)

NoSubmits == [runs |-> 0, requests |-> 0, runRequests |-> 0, outcome |-> "none",
              request |-> NoRequest]

\* lines 28-51
Init ==
    /\ user \in AuthUsers
    /\ isAuthenticated \in BOOLEAN
    /\ userId = OrElse(user.id, GeneratedUserId)
    /\ formData = EmptyForm
    /\ errors = NoErrors
    /\ isSubmitting = FALSE
    /\ submitStatus = "idle"
    /\ submitMessage = NoMessage
    /\ showUploadForm = FALSE
    /\ submitPc = "idle"
    /\ timers = 0
    /\ submitLog = NoSubmits
    /\ validateResult = "none"
    /\ clicks = [c \in 1..MaxClicks |-> NoClick]
    /\ lastEvent = NoEvent
    /\ logins = [i \in 1..MaxLogins |-> NoLogin]
    /\ body = <<>>
    /\ detail = JUndefined
    /\ HistoryIdle

Next ==
    \/ AuthChange
    \/ \E c \in 1..MaxClicks : RetrieveClick(c)
    \/ \E c \in 1..MaxClicks : RetrieveResponseOk(c)
    \/ \E c \in 1..MaxClicks : RetrieveTextResolves(c)
    \/ \E c \in 1..MaxClicks : RetrieveResponseNotOk(c)
    \/ \E c \in 1..MaxClicks : RetrieveRejects(c)
    \/ \E i \in 1..MaxLogins : LoginSubmit(i)
    \/ \E i \in 1..MaxLogins : LoginResolves(i)

Spec == Init /\ [][Next]_vars

\* the same, with the fairness of a user who keeps acting and of requests
\* that always settle
FairSpec == Init /\ [][Next]_vars /\ WF_vars(Next)

----------------------------------------------------------------------------
(* The upload form. No statement of src/App.tsx sets showUploadForm to     *)
(* true (lines 227, 655 and 874 set it to false), so the handlers of the   *)
(* form are studied from the states in which the form is displayed: the    *)
(* component as first rendered, but with showUploadForm true and the       *)
(* effect of lines 54-66 applied.                                          *)

FormInit ==
    /\ user \in AuthUsers
    /\ isAuthenticated \in BOOLEAN
    /\ userId = OrElse(user.id, GeneratedUserId)
    /\ showUploadForm = TRUE
    /\ formData = PrefillEffect(user, showUploadForm, EmptyForm)
    /\ errors = NoErrors
    /\ isSubmitting = FALSE
    /\ submitStatus = "idle"
    /\ submitMessage = NoMessage
    /\ submitPc = "idle"
    /\ timers = 0
    /\ submitLog = NoSubmits
    /\ validateResult = "none"
    /\ clicks = [c \in 1..MaxClicks |-> NoClick]
    /\ lastEvent = NoEvent
    /\ logins = [i \in 1..MaxLogins |-> NoLogin]
    /\ body = <<>>
    /\ detail = JUndefined
    /\ HistoryIdle

FormNext ==
    \/ AuthChange
    \/ HandleInputChange
    \/ HandleFileChange
    \/ HandleSubmit
    \/ UploadResponseOk
    \/ UploadResponseNotOk
    \/ UploadTextResolves
    \/ UploadRejects
    \/ UploadTimerFires
    \/ CloseUploadForm

FormSpec == FormInit /\ [][FormNext]_vars

----------------------------------------------------------------------------
(* The network-issuing handlers together: the upload form displayed with a *)
(* file chosen or not, and the submit, click and login handlers, without   *)
(* the typing handlers.                                                    *)

NetInit ==
    /\ user \in AuthUsers
    /\ isAuthenticated \in BOOLEAN
    /\ userId = OrElse(user.id, GeneratedUserId)
    /\ showUploadForm = TRUE
    /\ \E file \in SelectableFiles :
          formData = PrefillEffect(user, showUploadForm, [EmptyForm EXCEPT !.file = file])
    /\ errors = NoErrors
    /\ isSubmitting = FALSE
    /\ submitStatus = "idle"
    /\ submitMessage = NoMessage
    /\ submitPc = "idle"
    /\ timers = 0
    /\ submitLog = NoSubmits
    /\ validateResult = "none"
    /\ clicks = [c \in 1..MaxClicks |-> NoClick]
    /\ lastEvent = NoEvent
    /\ logins = [i \in 1..MaxLogins |-> NoLogin]
    /\ body = <<>>
    /\ detail = JUndefined
    /\ HistoryIdle

NetNext ==
    \/ AuthChange
    \/ HandleSubmit
    \/ UploadResponseOk
    \/ UploadResponseNotOk
    \/ UploadTextResolves
    \/ UploadRejects
    \/ UploadTimerFires
    \/ \E c \in 1..MaxClicks : RetrieveClick(c)
    \/ \E c \in 1..MaxClicks : RetrieveResponseOk(c)
    \/ \E c \in 1..MaxClicks : RetrieveTextResolves(c)
    \/ \E c \in 1..MaxClicks : RetrieveResponseNotOk(c)
    \/ \E c \in 1..MaxClicks : RetrieveRejects(c)
    \/ \E i \in 1..MaxLogins : LoginSubmit(i)
    \/ \E i \in 1..MaxLogins : LoginResolves(i)

NetSpec == NetInit /\ [][NetNext]_vars

----------------------------------------------------------------------------
(* The history handlers, called by the chat widget through the props of    *)
(* lines 516-517                                                           *)

SampleConversation(i) == Conversation(<<"c", i>>, <<"title", i>>, DateOf(i, 10 * i))

\* the conversations in one order and in the opposite order
ConversationLists ==
    UNION {{[i \in 1..n |-> SampleConversation(i)],
            [i \in 1..n |-> SampleConversation(n + 1 - i)]} : n \in 0..MaxConversations}

SampleMessages_m1 == Message(<<"m1">>, <<"hello">>, "user", DateOf(1, 5), "undefined")
SampleMessages_m2 == Message(<<"m2">>, <<"--- hi ---">>, "bot", DateOf(2, 7), "a.pdf")
SampleMessages == {SampleMessages_m1, SampleMessages_m2}

RECURSIVE MessageLists(_)
MessageLists(n) ==
    IF n = 0 THEN {<<>>}
    ELSE MessageLists(n - 1) \cup
         {Append(l, m) : l \in {x \in MessageLists(n - 1) : Len(x) = n - 1},
                         m \in SampleMessages}

HistoryInit ==
    /\ user \in AuthUsers
    /\ isAuthenticated \in BOOLEAN
    /\ userId = OrElse(user.id, GeneratedUserId)
    /\ formData = EmptyForm
    /\ errors = NoErrors
    /\ isSubmitting = FALSE
    /\ submitStatus = "idle"
    /\ submitMessage = NoMessage
    /\ showUploadForm = FALSE
    /\ submitPc = "idle"
    /\ timers = 0
    /\ submitLog = NoSubmits
    /\ validateResult = "none"
    /\ clicks = [c \in 1..MaxClicks |-> NoClick]
    /\ lastEvent = NoEvent
    /\ logins = [i \in 1..MaxLogins |-> NoLogin]
    /\ body = <<>>
    /\ detail = JUndefined
    /\ conversations \in ConversationLists
    /\ allHistory = NoAllHistory
    /\ n8nHistory = NoN8NHistory

ConversationLoads == \E messages \in MessageLists(MaxMessages) : ConversationLoadsWith(messages)
N8NLoads == \E messages \in MessageLists(MaxMessages) : N8NLoadsWith(messages)

HistoryNext ==
    \/ AuthChange
    \/ LoadAllHistory
    \/ ConversationLoads
    \/ ConversationFails
    \/ LoadN8NHistory
    \/ N8NLoads
    \/ N8NFails

HistorySpec == HistoryInit /\ [][HistoryNext]_vars

----------------------------------------------------------------------------
(* validateForm as a function of the user and the form data *)

ValidEmail == <<"a", "@", "a", ".", "a">>
GoodFile == File("application/pdf", 1024)
NameInputs == Strings({"a", " "}, MaxNameLen)
EmailInputs == Strings(Chars, MaxEmailLen)
FileInputs == {NoFile} \cup
              {File(type, size) : type \in {"application/pdf", "text/plain"},
                                  size \in {0, MaxFileSize - 1, MaxFileSize, MaxFileSize + 1}}

Form(firstName, lastName, brandName, email, file) ==
    [firstName |-> firstName, lastName |-> lastName, brandName |-> brandName,
     email |-> email, file |-> file]

\* every name typed and every name of the user varies
NameCases ==
    {[user |-> u, formData |-> Form(f, l, b, ValidEmail, GoodFile)] :
        u \in {NoUser} \cup {User(<<"u1">>, uf, ul, ub, ValidEmail) :
                                uf \in NameInputs, ul \in NameInputs, ub \in NameInputs},
        f \in NameInputs, l \in NameInputs, b \in NameInputs}

\* the email typed, or the email of the user, varies
EmailCases ==
    {[user |-> NoUser, formData |-> Form(<<"a">>, <<"a">>, <<"a">>, e, GoodFile)] :
        e \in EmailInputs}
    \cup
    {[user |-> User(<<"u1">>, <<"a">>, <<"a">>, <<"a">>, e),
      formData |-> Form(<<"a">>, <<"a">>, <<"a">>, typed, GoodFile)] :
        e \in EmailInputs, typed \in {<<>>, ValidEmail, <<"a">>}}

\* the file varies, with a valid and an invalid first name
FileCases ==
    {[user |-> u, formData |-> Form(f, <<"a">>, <<"a">>, ValidEmail, file)] :
        u \in AuthUsers, f \in {<<>>, <<"a">>}, file \in FileInputs}

ValidateInputs == NameCases \cup EmailCases \cup FileCases

ValidateInit ==
    /\ \E input \in ValidateInputs : user = input.user /\ formData = input.formData
    /\ isAuthenticated = user.present
    /\ userId = OrElse(user.id, GeneratedUserId)
    /\ showUploadForm = TRUE
    /\ errors = NoErrors
    /\ isSubmitting = FALSE
    /\ submitStatus = "idle"
    /\ submitMessage = NoMessage
    /\ submitPc = "idle"
    /\ timers = 0
    /\ submitLog = NoSubmits
    /\ validateResult = "none"
    /\ clicks = [c \in 1..MaxClicks |-> NoClick]
    /\ lastEvent = NoEvent
    /\ logins = [i \in 1..MaxLogins |-> NoLogin]
    /\ body = <<>>
    /\ detail = JUndefined
    /\ HistoryIdle

\* validateForm, lines 121-157: setErrors(newErrors) and the value returned
ValidateForm ==
    /\ validateResult = "none"
    /\ errors' = NewErrors(user, formData)
    /\ validateResult' = IF IsValid(NewErrors(user, formData)) THEN "true" ELSE "false"
    /\ UNCHANGED <<authVars, formData, isSubmitting, submitStatus, submitMessage,
                   showUploadForm, submitPc, timers, submitLog, appVars, pureVars, histVars>>

ValidateNext == ValidateForm

ValidateSpec == ValidateInit /\ [][ValidateNext]_vars

----------------------------------------------------------------------------
(* The message extraction as a function of the response body *)

ScalarToks == {NumberTok("0"), NumberTok("1"), StringTok(""), StringTok("s"),
               LiteralTok("true"), LiteralTok("false"), LiteralTok("null")}
KeyNames == {"messages", "data", "history", "chat_history", "conversations", "items",
             "content", "message", "text", "other"}
AllTokens == ScalarToks \cup {StringTok(k) : k \in KeyNames}
             \cup {Punct(v) : v \in {"[", "]", "{", "}", ",", ":"}}
             \cup {Ws, Word("hello")}

\* the texts of arrays of up to n elements
ElementTexts == {<<NumberTok("1")>>,
                 <<Punct("{"), StringTok("content"), Punct(":"), StringTok("s"), Punct("}")>>}
RECURSIVE ElementLists(_)
ElementLists(n) ==
    IF n = 1 THEN ElementTexts
    ELSE ElementLists(n - 1) \cup
         {l \o <<Punct(",")>> \o e : l \in ElementLists(n - 1), e \in ElementTexts}
ArrayTexts == {<<Punct("["), Punct("]")>>} \cup
              {<<Punct("[")>> \o l \o <<Punct("]")>> : l \in ElementLists(MaxArrayLen)}

ValueTexts == {<<t>> : t \in ScalarToks} \cup ArrayTexts
              \cup {<<Punct("{"), Punct("}")>>,
                    <<Punct("{"), StringTok("length"), Punct(":"), NumberTok("0"), Punct("}")>>}

Member(key, valueText) == <<StringTok(key), Punct(":")>> \o valueText

\* objects of one member, and of two members with a few values
ObjectTexts ==
    {<<Punct("{")>> \o Member(k, v) \o <<Punct("}")>> : k \in KeyNames, v \in ValueTexts}
    \cup
    {<<Punct("{")>> \o Member(k1, v1) \o <<Punct(",")>> \o Member(k2, v2) \o <<Punct("}")>> :
        k1 \in KeyNames, k2 \in KeyNames,
        v1 \in {<<Punct("["), Punct("]")>>, <<NumberTok("0")>>, <<StringTok("s")>>},
        v2 \in {<<Punct("["), NumberTok("1"), Punct("]")>>, <<StringTok("s")>>}}

\* every sequence of up to n tokens: most are no JSON
RECURSIVE TokenSeqs(_)
TokenSeqs(n) ==
    IF n = 0 THEN {<<>>}
    ELSE TokenSeqs(n - 1) \cup
         {Append(l, t) : l \in {x \in TokenSeqs(n - 1) : Len(x) = n - 1}, t \in AllTokens}

Bodies ==
    LET json == ValueTexts \cup ObjectTexts
    IN  json \cup {<<Ws>> \o b \o <<Ws, Ws>> : b \in ValueTexts} \cup TokenSeqs(MaxRawLen)

ExtractInit ==
    /\ body \in Bodies
    /\ detail = JUndefined
    /\ HistoryIdle
    /\ user = Alice
    /\ isAuthenticated = TRUE
    /\ userId = OrElse(user.id, GeneratedUserId)
    /\ showUploadForm = FALSE
    /\ formData = EmptyForm
    /\ errors = NoErrors
    /\ isSubmitting = FALSE
    /\ submitStatus = "idle"
    /\ submitMessage = NoMessage
    /\ submitPc = "idle"
    /\ timers = 0
    /\ submitLog = NoSubmits
    /\ validateResult = "none"
    /\ clicks = [c \in 1..MaxClicks |-> NoClick]
    /\ lastEvent = NoEvent
    /\ logins = [i \in 1..MaxLogins |-> NoLogin]

\* lines 347-388: the detail of the event built from an ok response's text
ExtractStep ==
    /\ detail = JUndefined
    /\ detail' = ExtractMessages(body)
    /\ UNCHANGED <<authVars, formVars, appVars, body, histVars>>

ExtractNext == ExtractStep

ExtractSpec == ExtractInit /\ [][ExtractNext]_vars

----------------------------------------------------------------------------
(* Properties *)

\* a string that is empty or only whitespace
Blank(s) == \A i \in 1..Len(s) : s[i] \in Whitespace

\* the user's value when it is non-empty, the typed value otherwise
EffectiveValue(field) ==
    IF user.present /\ Len(user[field]) > 0 THEN user[field] ELSE formData[field]

HasError(errs) == \E k \in DOMAIN errs : errs[k] # ""

\* C1: a handleSubmit run in which validateForm records an error sends no
\* request and leaves isSubmitting, submitStatus and submitMessage as they
\* were; a request is sent only by a run whose validation recorded no error.
C1_InvalidFormSendsNothing ==
    [][/\ (submitLog'.runs # submitLog.runs /\ HasError(errors')) =>
              /\ submitLog'.requests = submitLog.requests
              /\ submitPc' = submitPc
              /\ isSubmitting' = isSubmitting
              /\ submitStatus' = submitStatus
              /\ submitMessage' = submitMessage
       /\ (submitLog'.requests # submitLog.requests) =>
              /\ submitLog'.runs # submitLog.runs
              /\ ~HasError(errors')]_vars

C1_Witness ==
    /\ submitLog.runs > 0
    /\ submitLog.outcome = "invalid"
    /\ HasError(errors)
    /\ submitLog.requests = 0
    /\ formData.file.present

RequiredMessage(field) ==
    CASE field = "firstName" -> "First name is required"
      [] field = "lastName" -> "Last name is required"
      [] field = "brandName" -> "Brand name is required"
      [] field = "email" -> "Email is required"

\* C2: after validateForm, each of first name, last name, brand name and
\* email has its 'required' error exactly when its effective value is empty
\* or only whitespace, and validateForm returned true exactly when no field
\* has an error.
C2_RequiredFields ==
    validateResult # "none" =>
        /\ \A field \in TextFields :
              (errors[field] = RequiredMessage(field)) <=> Blank(EffectiveValue(field))
        /\ \A field \in TextFields \ {"email"} :
              errors[field] \in {"", RequiredMessage(field)}
        /\ (validateResult = "true") <=> ~HasError(errors)

C2_Witness ==
    /\ validateResult = "false"
    /\ user.present
    /\ user.firstName = <<" ">>
    /\ formData.firstName = <<"a">>
    /\ errors.firstName = "First name is required"
    /\ errors.lastName = ""

\* local@domain.tld: three non-empty parts without whitespace or '@'
HasEmailForm(e) ==
    \E i \in 1..Len(e), j \in 1..Len(e) :
        /\ 1 < i /\ i + 1 < j /\ j < Len(e)
        /\ e[i] = "@"
        /\ e[j] = "."
        /\ \A k \in (1..Len(e)) \ {i} : e[k] \notin Whitespace /\ e[k] # "@"

\* C3: a blank effective email gets 'Email is required'; a non-blank one is
\* accepted exactly when it has the form local@domain.tld, and gets the
\* invalid-address message otherwise.
C3_EmailCheck ==
    validateResult # "none" =>
        LET e == EffectiveValue("email") IN
        /\ Blank(e) => errors.email = "Email is required"
        /\ (~Blank(e) /\ HasEmailForm(e)) => errors.email = ""
        /\ (~Blank(e) /\ ~HasEmailForm(e)) =>
              errors.email = "Please enter a valid email address"

C3_Witness ==
    /\ validateResult = "true"
    /\ user.present
    /\ user.email = <<".", "@", ".", ".", "a">>
    /\ formData.email = <<"a">>
    /\ errors.email = ""

C5_UploadFailureSurfaced ==
    /\ [](submitPc = "idle" => ~isSubmitting)
    /\ [][/\ (submitPc # "idle" /\ submitPc' = "idle") =>
                 /\ submitLog'.outcome \in {"success", "failure"}
                 /\ ~isSubmitting'
                 /\ submitLog'.outcome = "success" => submitStatus' = "success"
                 /\ submitLog'.outcome = "failure" =>
                       /\ submitStatus' = "error"
                       /\ submitMessage' # <<>>
                       /\ \E i \in 1..Len(submitMessage') : submitMessage'[i] # ""
                       /\ formData' = formData
                       /\ showUploadForm' = showUploadForm
          /\ (submitPc = "awaitFetch" /\ submitPc' = "awaitText") =>
                 /\ formData' = formData
                 /\ showUploadForm' = showUploadForm]_vars

C5_Witness ==
    /\ submitLog.outcome = "failure"
    /\ submitPc = "idle"
    /\ submitStatus = "error"
    /\ submitMessage = ErrorMessage(UploadFailedStatus)
    /\ ~isSubmitting
    /\ formData.file.present
    /\ showUploadForm

\* a list of exactly one bot message whose content starts with `prefix`
IsOneBotMessage(d, prefix) ==
    /\ d.t = "arr"
    /\ Len(d.items) = 1
    /\ Get(d.items[1], "sender") = JStr(<<"bot">>)
    /\ Get(d.items[1], "content").t = "str"
    /\ Len(Get(d.items[1], "content").s) = 2
    /\ Get(d.items[1], "content").s[1] = prefix
    /\ Get(d.items[1], "content").s[2] # ""

\* C6: a click that has finished has dispatched exactly one
\* 'loadWebhookHistory' event and a pending one none; the event of an ok
\* response carries the extracted messages, the event of a non-ok response
\* or of a thrown error exactly one bot message describing the failure.
C6_OneEventPerClick ==
    /\ \A c \in 1..MaxClicks :
          clicks[c].events = IF clicks[c].pc = "done" THEN 1 ELSE 0
    /\ (lastEvent.outcome = "none") <=> (\A c \in 1..MaxClicks : clicks[c].pc # "done")
    /\ lastEvent.outcome # "none" => clicks[lastEvent.click].pc = "done"
    /\ lastEvent.outcome = "ok" => lastEvent.detail = ExtractMessages(lastEvent.body)
    /\ lastEvent.outcome = "notOk" =>
          IsOneBotMessage(lastEvent.detail, "Failed to retrieve chat history: ")
    /\ lastEvent.outcome = "thrown" =>
          IsOneBotMessage(lastEvent.detail, "Error retrieving chat history: ")

C6_Witness ==
    /\ \A c \in 1..MaxClicks : clicks[c].pc = "done" /\ clicks[c].events = 1
    /\ lastEvent.outcome = "thrown"
    /\ lastEvent.click = 1

\* C7: no handler re-issues its call. A handleSubmit run sends at most one
\* upload request, a click exactly one webhook request, a login submit at
\* most one login call, and a request counter moves only in the step of the
\* user action itself.
C7_NoRetry ==
    /\ [](/\ submitLog.runRequests <= 1
          /\ submitLog.requests <= submitLog.runs
          /\ \A c \in 1..MaxClicks :
                clicks[c].fetches = IF clicks[c].pc = "none" THEN 0 ELSE 1
          /\ \A i \in 1..MaxLogins : logins[i].calls <= 1)
    /\ [][/\ submitLog'.requests # submitLog.requests =>
                 /\ submitLog'.requests = submitLog.requests + 1
                 /\ submitLog'.runs = submitLog.runs + 1
                 /\ submitPc = "idle"
          /\ \A c \in 1..MaxClicks :
                clicks'[c].fetches # clicks[c].fetches => clicks[c].pc = "none"
          /\ \A i \in 1..MaxLogins :
                logins'[i].calls # logins[i].calls => logins[i].pc = "none"]_vars

C7_Witness ==
    /\ submitLog.outcome = "failure"
    /\ submitLog.runRequests = 1
    /\ submitPc = "idle"
    /\ clicks[1].pc = "done"
    /\ lastEvent.outcome = "notOk"
    /\ logins[1].pc = "done"
    /\ logins[1].alert # <<>>

\* the detail of a body treated as raw text: one bot message holding the
\* trimmed body, or no message when the body is blank
IsRawTextDetail(b, d) ==
    /\ d.t = "arr"
    /\ IF \A i \in 1..Len(b) : b[i].k = "ws"
       THEN d.items = <<>>
       ELSE /\ Len(d.items) = 1
            /\ Get(d.items[1], "sender") = JStr(<<"bot">>)
            /\ Get(d.items[1], "content") = JStr(TextOf(TrimBody(b)))

\* the detail of a JSON object: one of its message fields, or the empty
\* list, or the object itself as the only message
IsObjectDetail(value, d) ==
    \/ \E i \in 1..Len(MessageFields) : d = Get(value, MessageFields[i])
    \/ d = JArr(<<>>)
    \/ d = JArr(<<value>>)

\* C8 as stated: a JSON array is delivered unchanged, a JSON object is
\* searched for the message fields, every other body is raw text.
C8_Original_ThreeCases ==
    detail # JUndefined =>
        LET r == JSONParse(body) IN
        IF r.ok /\ r.val.t = "arr" THEN detail = r.val
        ELSE IF r.ok /\ r.val.t = "obj" THEN IsObjectDetail(r.val, detail)
        ELSE IsRawTextDetail(body, detail)

\* C8, amended: a JSON array is delivered unchanged, a JSON object is
\* searched for the message fields, any other JSON value (string, number,
\* boolean, null) gives the empty list, and a body that is no JSON is raw
\* text: one bot message holding the trimmed body, none when it is blank.
C8_ShapeDetection ==
    detail # JUndefined =>
        LET r == JSONParse(body) IN
        IF r.ok /\ r.val.t = "arr" THEN detail = r.val
        ELSE IF r.ok /\ r.val.t = "obj" THEN IsObjectDetail(r.val, detail)
        ELSE IF r.ok THEN detail = JArr(<<>>)
        ELSE IsRawTextDetail(body, detail)

C8_Witness ==
    /\ detail = JArr(<<>>)
    /\ body = <<Ws, StringTok("s"), Ws, Ws>>

\* C9 as stated, for a user who keeps acting: from the initial state the
\* upload form is eventually displayed.
C9_UploadFormShown == <>showUploadForm

\* what the code does instead: showUploadForm is false in every state
C9_UploadFormNeverShown == ~showUploadForm

\* C10: the detail of every dispatched event is a list.
C10_DetailIsList == lastEvent.outcome # "none" => lastEvent.detail.t = "arr"

\* the value selected from a JSON object: that of the first message field
\* whose value is truthy, the empty list when there is none
IsSelected(value, selected) ==
    \/ \E i \in 1..Len(MessageFields) :
          /\ JsTruthy(Get(value, MessageFields[i]))
          /\ \A j \in 1..(i - 1) : ~JsTruthy(Get(value, MessageFields[j]))
          /\ selected = Get(value, MessageFields[i])
    \/ /\ \A i \in 1..Len(MessageFields) : ~JsTruthy(Get(value, MessageFields[i]))
       /\ selected = JArr(<<>>)

HasLengthZero(value) ==
    \/ value.t = "arr" /\ Len(value.items) = 0
    \/ value.t = "obj" /\ Get(value, "length") = JNum(0)

\* C11: for a JSON object the messages are the value of the first truthy
\* field among messages, data, history, chat_history, conversations, items
\* (an empty list is truthy and ends the search), the empty list when no
\* field is truthy; the object itself is the only message exactly when the
\* selected value has length 0 and content, message or text is truthy.
C11_FieldSelection ==
    detail # JUndefined =>
        LET r == JSONParse(body) IN
        (r.ok /\ r.val.t = "obj") =>
            \E selected \in {Get(r.val, MessageFields[i]) : i \in 1..Len(MessageFields)}
                             \cup {JArr(<<>>)} :
                /\ IsSelected(r.val, selected)
                /\ LET single == /\ HasLengthZero(selected)
                                 /\ \E f \in {"content", "message", "text"} :
                                       JsTruthy(Get(r.val, f))
                   IN  /\ single => detail = JArr(<<r.val>>)
                       /\ ~single => detail = selected

C11_Witness ==
    /\ detail = JArr(<<>>)
    /\ body = <<Punct("{")>> \o Member("messages", <<Punct("["), Punct("]")>>)
              \o <<Punct(",")>> \o Member("data", <<Punct("["), NumberTok("1"), Punct("]")>>)
              \o <<Punct("}")>>

\* C12: a call of handleLoadAllHistory or handleLoadN8NHistory made while
\* user is absent or isAuthenticated is false returns the empty list at
\* once, and no call of loadConversationMessages or loadN8NChatHistory is
\* made by it then or later.
C12_HistoryNeedsAuth ==
    [][LET unauth == ~user.present \/ ~isAuthenticated IN
       /\ (unauth /\ allHistory.pc = "none" /\ allHistory'.pc # "none") =>
              /\ allHistory'.pc = "done"
              /\ allHistory'.outcome = "returned"
              /\ allHistory'.result = <<>>
              /\ allHistory'.calls = <<>>
       /\ (unauth /\ n8nHistory.pc = "none" /\ n8nHistory'.pc # "none") =>
              /\ n8nHistory'.pc = "done"
              /\ n8nHistory'.outcome = "returned"
              /\ n8nHistory'.result = <<>>
              /\ n8nHistory'.calls = 0
       /\ allHistory.pc = "done" => allHistory' = allHistory
       /\ n8nHistory.pc = "done" => n8nHistory' = n8nHistory]_vars

C12_Witness ==
    /\ user.present
    /\ ~isAuthenticated
    /\ Len(conversations) = 2
    /\ allHistory.pc = "done"
    /\ allHistory.calls = <<>>
    /\ allHistory.result = <<>>
    /\ n8nHistory.pc = "done"
    /\ n8nHistory.calls = 0

\* C13: once a load of a conversation has failed, handleLoadAllHistory has
\* returned the empty list whatever it had collected, the failed load is
\* its last one, and it loads nothing more; once loadN8NChatHistory has
\* failed, handleLoadN8NHistory has returned the empty list. Both handlers
\* end by returning, never by throwing.
C13_AllOrNothing ==
    /\ [](((\E i \in 1..Len(allHistory.calls) : allHistory.calls[i].op = "failed") =>
              (/\ allHistory.calls[Len(allHistory.calls)].op = "failed"
               /\ \A i \in 1..(Len(allHistory.calls) - 1) : allHistory.calls[i].op # "failed"
               /\ allHistory.pc = "done"
               /\ allHistory.result = <<>>))
          /\ (n8nHistory.load = "rejected" =>
                 (n8nHistory.pc = "done" /\ n8nHistory.result = <<>>))
          /\ allHistory.outcome \in {"none", "returned"}
          /\ n8nHistory.outcome \in {"none", "returned"}
          /\ (allHistory.pc = "done" <=> allHistory.outcome = "returned")
          /\ (n8nHistory.pc = "done" <=> n8nHistory.outcome = "returned"))
    /\ [][/\ allHistory.pc = "done" => allHistory' = allHistory
          /\ n8nHistory.pc = "done" => n8nHistory' = n8nHistory]_vars

C13_Witness ==
    /\ Len(allHistory.convs) = 3
    /\ allHistory.k = 2
    /\ Len(allHistory.allMessages) = 2
    /\ allHistory.calls[Len(allHistory.calls)].op = "failed"
    /\ allHistory.pc = "done"
    /\ allHistory.result = <<>>
    /\ n8nHistory.load = "rejected"
    /\ n8nHistory.result = <<>>

RECURSIVE Flatten(_)
Flatten(lists) ==
    IF lists = <<>> THEN <<>> ELSE Head(lists) \o Flatten(Tail(lists))

IsSeparator(m) == m.id[1] = "separator-"
NotSeparator(m) == ~IsSeparator(m)

\* the message of the result that stands for a loaded message
IsHistoryCopy(m, msg) ==
    /\ m.id = <<"history-", msg.id>>
    /\ m.content = msg.content
    /\ m.sender = msg.sender
    /\ m.timestamp = msg.timestamp
    /\ m.attachments = msg.attachments

\* C14: handleLoadAllHistory starts the load of a conversation only when
\* the loads of all conversations before it in the list have completed, in
\* the order of the list; and, separators left aside, the list it returns
\* (and the list collected at any moment) holds the loaded messages in
\* conversation order and loaded order, each with 'history-' before its id
\* and the same content, sender, timestamp and attachments.
C14_SequentialInOrder ==
    LET calls == allHistory.calls
        kept == SelectSeq(allHistory.allMessages, NotSeparator)
        msgs == Flatten(allHistory.loaded)
    IN  /\ \A i \in 1..Len(calls) :
              /\ calls[i].id = allHistory.convs[(i + 1) \div 2].id
              /\ (i % 2 = 1) => calls[i].op = "start"
              /\ (i % 2 = 0) => calls[i].op \in {"loaded", "failed"}
        /\ Len(allHistory.loaded) = Len(calls) \div 2
              - (IF \E i \in 1..Len(calls) : calls[i].op = "failed" THEN 1 ELSE 0)
        /\ Len(kept) = Len(msgs)
        /\ \A i \in 1..Len(kept) : IsHistoryCopy(kept[i], msgs[i])
        /\ (allHistory.pc = "done" /\ Len(allHistory.loaded) = Len(allHistory.convs)) =>
              allHistory.result = allHistory.allMessages

C14_Witness ==
    /\ allHistory.pc = "done"
    /\ Len(allHistory.convs) = 3
    /\ allHistory.convs[1].id = <<"c", 3>>
    /\ Len(allHistory.loaded) = 3
    /\ allHistory.loaded[1] = <<SampleMessages_m2, SampleMessages_m1>>
    /\ Len(allHistory.loaded[3]) = 2
    /\ Len(allHistory.result) = 6

\* the position in the result at which the messages of conversation j begin,
\* separators counted as the claim counts them: one before every
\* conversation but the first
BlockStart(j) == Len(Flatten(SubSeq(allHistory.loaded, 1, j - 1))) + (j - 1) + 1

\* C15 as stated: when all n >= 1 conversations have loaded, the result
\* holds exactly n-1 separators, one right before the messages of every
\* conversation after the first, with id 'separator-<conversation id>' and
\* the conversation's creation time as timestamp.
C15_SeparatorPerConversation ==
    (/\ allHistory.pc = "done"
     /\ Len(allHistory.convs) >= 1
     /\ Len(allHistory.loaded) = Len(allHistory.convs)) =>
        /\ Len(SelectSeq(allHistory.result, IsSeparator)) = Len(allHistory.convs) - 1
        /\ \A j \in 2..Len(allHistory.convs) :
              /\ BlockStart(j) - 1 \in 1..Len(allHistory.result)
              /\ allHistory.result[BlockStart(j) - 1].id =
                     <<"separator-", allHistory.convs[j].id>>
              /\ allHistory.result[BlockStart(j) - 1].timestamp =
                     allHistory.convs[j].createdAt

\* what the code does: a conversation gets its separator exactly when some
\* conversation before it has contributed a message
C15_SeparatorAfterMessages ==
    (/\ allHistory.pc = "done"
     /\ Len(allHistory.loaded) = Len(allHistory.convs)) =>
        Len(SelectSeq(allHistory.result, IsSeparator)) =
            Cardinality({j \in 2..Len(allHistory.convs) :
                            Flatten(SubSeq(allHistory.loaded, 1, j - 1)) # <<>>})

\* C16: the step of handleSubmit that follows an ok response sets
\* submitStatus to 'success', empties formData, schedules the delayed
\* close and leaves showUploadForm as it is; the delayed close sets
\* showUploadForm to false, submitStatus to 'idle' and submitMessage to '';
\* no step of handleSubmit itself changes showUploadForm, and a delayed
\* close is scheduled by nothing but a success.
C16_SuccessThenDelayedClose ==
    [][LET succeeds == submitLog.outcome = "pending" /\ submitLog'.outcome = "success" IN
       /\ succeeds =>
              /\ submitStatus' = "success"
              /\ formData' = EmptyForm
              /\ showUploadForm' = showUploadForm
              /\ timers' = timers + 1
       /\ timers' < timers =>
              /\ ~showUploadForm'
              /\ submitStatus' = "idle"
              /\ submitMessage' = NoMessage
       /\ (submitLog' # submitLog \/ submitPc' # submitPc) =>
              showUploadForm' = showUploadForm
       /\ timers' > timers => succeeds]_vars

C16_Witness ==
    /\ user.present
    /\ submitLog.outcome = "success"
    /\ submitStatus = "success"
    /\ formData = EmptyForm
    /\ showUploadForm
    /\ timers = 1
    /\ ~isSubmitting

\* C17 as stated: the userId field of every upload request is the id the
\* component logs and hands to the chat widget, user.id when there is one
\* and the generated userId otherwise.
C17_RequestUserId ==
    [][submitLog'.requests > submitLog.requests =>
          submitLog'.request.userId = OrElse(user.id, userId)]_vars

\* what the code sends: the email of the user, or the one typed
C17_RequestUserIdIsEmail ==
    [][submitLog'.requests > submitLog.requests =>
          submitLog'.request.userId = OrElse(user.email, formData.email)]_vars

\* C18: a submit of the login form has called login once if both email
\* and password were non-empty and not at all otherwise; once login has
\* answered, the error of an unsuccessful result that carries one is what
\* the alert shows, and there is no alert after a successful result nor
\* when login was not called.
C18_LoginOnceAndAlert ==
    \A i \in 1..MaxLogins :
        LET l == logins[i] IN
        l.pc # "none" =>
            /\ l.calls = IF l.email # <<>> /\ l.password # <<>> THEN 1 ELSE 0
            /\ l.calls = 0 => (l.pc = "done" /\ l.alert = <<>>)
            /\ (l.pc = "done" /\ l.calls = 1) =>
                  /\ (~l.result.success /\ l.result.error # <<>>) => l.alert = l.result.error
                  /\ l.result.success => l.alert = <<>>
            /\ l.pc = "awaitLogin" => l.alert = <<>>

C18_Witness ==
    /\ logins[1].pc = "done"
    /\ logins[1].calls = 1
    /\ ~logins[1].result.success
    /\ logins[1].alert = <<"Invalid login credentials">>

\* C19 as stated: the delayed close of an earlier success leaves a later
\* submission alone: when it fires while a later run of handleSubmit is
\* pending or is showing its error, it changes neither submitStatus nor
\* submitMessage and does not close the upload form.
C19_TimerLeavesLaterSubmit ==
    [][(/\ timers' < timers
        /\ submitLog.runs > 1
        /\ submitLog.outcome \in {"pending", "failure"}) =>
           /\ submitStatus' = submitStatus
           /\ submitMessage' = submitMessage
           /\ showUploadForm' = showUploadForm]_vars

\* what the code does: the delayed close is never cancelled and acts
\* whatever has happened since it was scheduled
C19_TimerActsRegardless ==
    [][timers' < timers =>
           /\ submitStatus' = "idle"
           /\ submitMessage' = NoMessage
           /\ ~showUploadForm']_vars

\* C20: isSubmitting is true exactly while a validated run of handleSubmit
\* has its request unsettled, and no step taken while isSubmitting is true
\* issues an upload request: at most one request is pending.
C20_OnePendingUpload ==
    /\ [](isSubmitting <=> submitPc # "idle")
    /\ [](isSubmitting => (submitLog.outcome = "pending" /\ submitLog.runRequests = 1))
    /\ [][isSubmitting => submitLog'.requests = submitLog.requests]_vars
    /\ [][submitLog'.requests > submitLog.requests =>
             (/\ submitLog'.requests = submitLog.requests + 1
              /\ ~isSubmitting
              /\ isSubmitting')]_vars

C20_Witness ==
    /\ isSubmitting
    /\ submitPc = "awaitText"
    /\ submitLog.runs = 2
    /\ submitLog.requests = 2
    /\ timers = 1

====
